---------------------------- MODULE Spec2Model ----------------------------
(***************************************************************************)
(* Model of mcping.py: the VarInt codec, the packet framer, the status     *)
(* response parser and MinecraftPing.ping, together with the sockets the   *)
(* program talks to.                                                       *)
(*                                                                         *)
(* Byte strings are sequences of integers 0..255.  Python's None is the    *)
(* empty tuple None, and a value that may be None is held as <<x>>.        *)
(***************************************************************************)
EXTENDS Integers, Sequences, FiniteSets, TLC

VARIABLES
    host, port, latency, status,      \* attributes of the MinecraftPing object
    pc, result, s, start, end, nread, \* the frame of ping(): position, outcome, locals
    raised,                           \* exceptions raised so far by the calls ping() made
    conns, clock, calls,              \* sockets created so far, perf_counter, calls left
    rpc, rp,                          \* the frame of read_packet()/decode_varint() on a socket
    tpc, tcase, tout                  \* codec harness: position, input, outputs

objVars  == <<host, port, latency, status>>
pingVars == <<pc, result, s, start, end, nread, raised>>
netVars  == <<conns, clock, calls>>
rdVars   == <<rpc, rp>>
testVars == <<tpc, tcase, tout>>
vars     == <<host, port, latency, status, pc, result, s, start, end, nread, raised,
              conns, clock, calls, rpc, rp, tpc, tcase, tout>>

---------------------------------------------------------------------------
(* Bounds of the model *)

\* calls of ping() made on one MinecraftPing object
MaxPings == 2
\* empty recv() results the payload loop of read_packet is followed through
MaxSpin == 2
\* largest payload length of the framing round-trip inputs
MaxPayload == 2
\* largest partial byte count a recv() of the payload loop returns, besides the
\* full count
MaxChunk == 2

---------------------------------------------------------------------------
(* Python values *)

None == <<>>
Some(x) == <<x>>

Exc(cls, msg) == [cls |-> cls, msg |-> msg]
NoExc == Exc("", "")

OverflowError_VarInt == Exc("OverflowError", "VarInt too large")
OverflowError_Host   == Exc("OverflowError", "Hostname too large: >32767 bytes in size")
IndexError_Bytes     == Exc("IndexError", "index out of range")
TypeError_Ord        == Exc("TypeError", "ord() expected a character, but string of length 0 found")
RuntimeError_Length  == Exc("RuntimeError", "Return data length mismatch")
\* socket.timeout is the builtin TimeoutError since Python 3.10
SocketTimeout        == Exc("TimeoutError", "timed out")
BrokenPipe           == Exc("BrokenPipeError", "[Errno 32] Broken pipe")
KeyError(k)          == Exc("KeyError", k)
JSONDecodeError      == Exc("JSONDecodeError", "Expecting value: line 1 column 1 (char 0)")

RECURSIVE Pow2(_)
Pow2(n) == IF n = 0 THEN 1 ELSE 2 * Pow2(n - 1)

Min(a, b) == IF a < b THEN a ELSE b

---------------------------------------------------------------------------
(* VarInt codec *)

\* struct.unpack(">I", struct.pack(">i", number)): the 32-bit two's-complement
\* pattern of number as an unsigned value.  The unsigned value does not fit the
\* model checker's integers, so it is held as two limbs: lo = bits 0..27,
\* hi = bits 28..31.
ToU32_Low28(number) == [hi |-> 0, lo |-> number % Pow2(28)]

ToU32(number) == [hi |-> (number \div Pow2(28)) % 16, lo |-> number % Pow2(28)]

\* number & 0x7f
LowBits7(u) == u.lo % 128

\* number >> 7
Shr7(u) == [hi |-> 0, lo |-> (u.lo \div 128) + u.hi * Pow2(21)]

\* number != 0
NonZero(u) == u.hi # 0 \/ u.lo # 0

\* encode_loop as it would be without "part |= 0x80" on line 91
RECURSIVE encode_loop_NoFlag(_, _)
encode_loop_NoFlag(number, out) ==
    LET part == LowBits7(number)
        rest == Shr7(number)
    IN  IF NonZero(rest)
        THEN encode_loop_NoFlag(rest, out \o <<part>>)
        ELSE out \o <<part>>

\* the while-loop of encode_varint
RECURSIVE encode_loop(_, _)
encode_loop(number, out) ==
    LET part == LowBits7(number)
        rest == Shr7(number)
    IN  IF NonZero(rest)
        THEN encode_loop(rest, out \o <<part + 128>>)
        ELSE out \o <<part>>

encode_varint(number) == encode_loop(ToU32(number), <<>>)

\* Results of decode_varint: the number and (for a bytes source) the rest, or
\* the exception raised.
DvOk(number, rest) == [exc |-> NoExc, number |-> number, rest |-> rest]
DvErr(e) == [exc |-> e, number |-> 0, rest |-> <<>>]

\* byte & 0x7f
dv_value(byte) == byte % 128
\* (byte & 0x80) != 0
dv_more(byte) == byte >= 128
\* number |= value << (7*n_bytes): the groups do not overlap, so the OR is a sum
dv_accum(number, byte, n_bytes) == number + dv_value(byte) * Pow2(7 * n_bytes)
\* n_bytes += 1; if n_bytes > 4: raise
dv_overflow(n_bytes) == n_bytes + 1 > 4

\* decode_varint on a bytes source: the loop from the state (sock, number,
\* n_bytes).  The check of n_bytes follows the accumulation in the code; the
\* accumulated number is dropped when the check raises, so it is only computed
\* when it does not (at n_bytes = 4 it exceeds the model checker's integers).
RECURSIVE decode_loop(_, _, _)
decode_loop(sock, number, n_bytes) ==
    IF sock = <<>>
    THEN DvErr(IndexError_Bytes)
    ELSE LET byte == Head(sock)
         IN  IF dv_overflow(n_bytes)
             THEN DvErr(OverflowError_VarInt)
             ELSE IF dv_more(byte)
                  THEN decode_loop(Tail(sock), dv_accum(number, byte, n_bytes), n_bytes + 1)
                  ELSE DvOk(dv_accum(number, byte, n_bytes), Tail(sock))

decode_varint(sock) == decode_loop(sock, 0, 0)

---------------------------------------------------------------------------
(* Packet framer: writing *)

\* The bytes write_packet hands to sock.send
write_packet(data, packet_id) ==
    LET body   == encode_varint(packet_id) \o data
        length == encode_varint(Len(body))
    IN  length \o body

---------------------------------------------------------------------------
(* Strings as sequences of code points; str.encode("UTF-8") *)

Utf8Char(cp) ==
    IF cp < 128 THEN <<cp>>
    ELSE IF cp < 2048 THEN <<192 + (cp \div 64), 128 + (cp % 64)>>
    ELSE IF cp < 65536
         THEN <<224 + (cp \div 4096), 128 + ((cp \div 64) % 64), 128 + (cp % 64)>>
         ELSE <<240 + (cp \div 262144), 128 + ((cp \div 4096) % 64),
                128 + ((cp \div 64) % 64), 128 + (cp % 64)>>

\* encoded by halves, to keep the evaluation shallow on long strings
RECURSIVE Utf8Encode(_)
Utf8Encode(str) ==
    IF Len(str) = 0 THEN <<>>
    ELSE IF Len(str) = 1 THEN Utf8Char(str[1])
    ELSE LET h == Len(str) \div 2
         IN  Utf8Encode(SubSeq(str, 1, h)) \o Utf8Encode(SubSeq(str, h + 1, Len(str)))

\* struct.pack(">H", port), for 0 <= port <= 65535
PackU16(p) == <<p \div 256, p % 256>>

\* struct.pack(">q", time.time_ns()): eight bytes; the timestamp is opaque to the
\* program, the model sends the value t of its clock
PackI64(t) == <<0, 0, 0, 0, 0, 0, t \div 256, t % 256>>

---------------------------------------------------------------------------
(* Status documents.  json.loads is library code: it is modelled by its value *)
(* on the documents the model's servers send, and by a JSONDecodeError on any *)
(* other text (none of the other texts used here is JSON).                    *)

\* {"description":{"text":"Hi"},"players":{"max":20,"online":0},
\*  "version":{"name":"1.20","protocol":763},"favicon":"data:image/png;base64,AA=="}
DocIdle == <<123,34,100,101,115,99,114,105,112,116,105,111,110,34,58,123,34,116,101,120,116,34,58,34,72,105,34,125,44,34,112,108,97,121,101,114,115,34,58,123,34,109,97,120,34,58,50,48,44,34,111,110,108,105,110,101,34,58,48,125,44,34,118,101,114,115,105,111,110,34,58,123,34,110,97,109,101,34,58,34,49,46,50,48,34,44,34,112,114,111,116,111,99,111,108,34,58,55,54,51,125,44,34,102,97,118,105,99,111,110,34,58,34,100,97,116,97,58,105,109,97,103,101,47,112,110,103,59,98,97,115,101,54,52,44,65,65,61,61,34,125>>
\* {"description":{"text":"Hi"},"players":{"max":20,"online":2,
\*  "sample":[{"name":"Alice"},{"name":"Bob"}]},"version":{"name":"1.20","protocol":763}}
DocBusy == <<123,34,100,101,115,99,114,105,112,116,105,111,110,34,58,123,34,116,101,120,116,34,58,34,72,105,34,125,44,34,112,108,97,121,101,114,115,34,58,123,34,109,97,120,34,58,50,48,44,34,111,110,108,105,110,101,34,58,50,44,34,115,97,109,112,108,101,34,58,91,123,34,110,97,109,101,34,58,34,65,108,105,99,101,34,125,44,123,34,110,97,109,101,34,58,34,66,111,98,34,125,93,125,44,34,118,101,114,115,105,111,110,34,58,123,34,110,97,109,101,34,58,34,49,46,50,48,34,44,34,112,114,111,116,111,99,111,108,34,58,55,54,51,125,125>>
\* {"description":{"text":"Lobby"},"players":{"max":8,"online":1},
\*  "version":{"name":"1.8","protocol":47}}
DocNoSample == <<123,34,100,101,115,99,114,105,112,116,105,111,110,34,58,123,34,116,101,120,116,34,58,34,76,111,98,98,121,34,125,44,34,112,108,97,121,101,114,115,34,58,123,34,109,97,120,34,58,56,44,34,111,110,108,105,110,101,34,58,49,125,44,34,118,101,114,115,105,111,110,34,58,123,34,110,97,109,101,34,58,34,49,46,56,34,44,34,112,114,111,116,111,99,111,108,34,58,52,55,125,125>>
\* {}
DocEmpty == <<123,125>>
\* no
DocGarbage == <<110,111>>

EmptyObject == [k \in {} |-> 0]

JsonTable ==
    << [text |-> DocIdle,
        value |-> [description |-> [text |-> "Hi"],
                   players |-> [max |-> 20, online |-> 0],
                   version |-> [name |-> "1.20", protocol |-> 763],
                   favicon |-> "data:image/png;base64,AA=="]],
       [text |-> DocBusy,
        value |-> [description |-> [text |-> "Hi"],
                   players |-> [max |-> 20, online |-> 2,
                                sample |-> <<[name |-> "Alice"], [name |-> "Bob"]>>],
                   version |-> [name |-> "1.20", protocol |-> 763]]],
       [text |-> DocNoSample,
        value |-> [description |-> [text |-> "Lobby"],
                   players |-> [max |-> 8, online |-> 1],
                   version |-> [name |-> "1.8", protocol |-> 47]]],
       [text |-> DocEmpty, value |-> EmptyObject] >>

\* json.loads(data.decode())
JsonLoads(text) ==
    IF \E i \in 1..Len(JsonTable) : JsonTable[i].text = text
    THEN [exc |-> NoExc,
          value |-> JsonTable[CHOOSE i \in 1..Len(JsonTable) : JsonTable[i].text = text].value]
    ELSE [exc |-> JSONDecodeError, value |-> EmptyObject]

---------------------------------------------------------------------------
(* Status response parser *)

\* The status attributes of a MinecraftPing object; None while never assigned
NoStatus ==
    [description |-> None, player_limit |-> None, player_count |-> None,
     players |-> None, version |-> None, version_id |-> None, icon |-> None]

Has(obj, k) == k \in DOMAIN obj
SetAttr(st, k, v) == [st EXCEPT ![k] = Some(v)]
HrOk(st) == [exc |-> NoExc, status |-> st]
HrErr(e, st) == [exc |-> e, status |-> st]

\* self.icon = status.get("favicon", "")
hr_icon(st, doc) ==
    HrOk(SetAttr(st, "icon", IF Has(doc, "favicon") THEN doc.favicon ELSE ""))

\* self.version = ...; self.version_id = ...
hr_version(st, doc) ==
    IF ~Has(doc, "version") THEN HrErr(KeyError("'version'"), st)
    ELSE IF ~Has(doc.version, "name") THEN HrErr(KeyError("'name'"), st)
    ELSE IF ~Has(doc.version, "protocol")
         THEN HrErr(KeyError("'protocol'"), SetAttr(st, "version", doc.version.name))
         ELSE hr_icon(SetAttr(SetAttr(st, "version", doc.version.name),
                              "version_id", doc.version.protocol), doc)

\* if self.player_count: self.players = [names of the sample] else: self.players = []
hr_players(st, doc) ==
    IF doc.players.online # 0
    THEN IF ~Has(doc.players, "sample") THEN HrErr(KeyError("'sample'"), st)
         ELSE hr_version(SetAttr(st, "players",
                                 [i \in 1..Len(doc.players.sample) |-> doc.players.sample[i].name]),
                         doc)
    ELSE hr_version(SetAttr(st, "players", <<>>), doc)

\* self.player_limit = ...; self.player_count = ...
hr_counts(st, doc) ==
    IF ~Has(doc, "players") THEN HrErr(KeyError("'players'"), st)
    ELSE IF ~Has(doc.players, "max") THEN HrErr(KeyError("'max'"), st)
    ELSE IF ~Has(doc.players, "online")
         THEN HrErr(KeyError("'online'"), SetAttr(st, "player_limit", doc.players.max))
         ELSE hr_players(SetAttr(SetAttr(st, "player_limit", doc.players.max),
                                 "player_count", doc.players.online), doc)

\* self.description = status["description"]["text"]
hr_description(st, doc) ==
    IF ~Has(doc, "description") THEN HrErr(KeyError("'description'"), st)
    ELSE IF ~Has(doc.description, "text") THEN HrErr(KeyError("'text'"), st)
    ELSE hr_counts(SetAttr(st, "description", doc.description.text), doc)

\* MinecraftPing._handle_response on an object whose status attributes are st:
\* the exception raised (NoExc when none) and the attributes afterwards
handle_response(st, data) ==
    LET dv == decode_varint(data)
    IN  IF dv.exc # NoExc THEN HrErr(dv.exc, st)
        ELSE IF Len(dv.rest) # dv.number THEN HrErr(RuntimeError_Length, st)
        ELSE LET doc == JsonLoads(dv.rest)
             IN  IF doc.exc # NoExc THEN HrErr(doc.exc, st)
                 ELSE hr_description(st, doc.value)

---------------------------------------------------------------------------
(* Sockets.  A socket is a record: open (not yet closed by the program), sent  *)
(* (the byte strings handed to send, in order), inbuf (the bytes the peer has   *)
(* sent and the program has not read yet) and eof (TRUE: the peer closes after  *)
(* inbuf, so recv then returns b''; FALSE: the peer stays silent, so recv then *)
(* raises TimeoutError after the 5 s set by create_connection).                *)
(* send is taken to accept the whole byte string.                              *)

Socket(inbuf, eof) == [open |-> TRUE, sent |-> <<>>, inbuf |-> inbuf, eof |-> eof]

\* the socket read_packet reads from
Sock == conns[s]
Consume(k) == [conns EXCEPT ![s].inbuf = SubSeq(@, k + 1, Len(@))]
Sent(bytes) == [conns EXCEPT ![s].sent = Append(@, bytes)]
Closed == [conns EXCEPT ![s].open = FALSE]

---------------------------------------------------------------------------
(* Packet framer: reading from a socket.  rpc is the position in read_packet:  *)
(* "len" and "id" are the two decode_varint calls, "payload" the recv loop,    *)
(* "ret" the return and "raised" an exception leaving read_packet.             *)

RpInit ==
    [packet_length |-> 0, packet_id |-> 0, data_length |-> 0, data |-> <<>>,
     number |-> 0, n_bytes |-> 0, exc |-> NoExc, spins |-> 0, short |-> FALSE]

\* the caller's step that enters read_packet
CallReadPacket == rpc' = "len" /\ rp' = RpInit

RpRaise(e) == rpc' = "raised" /\ rp' = [rp EXCEPT !.exc = e]

\* decode_varint returned number: lines 119-122 go on from there
RpVarIntDone(number) ==
    IF rpc = "len"
    THEN /\ rpc' = "id"
         /\ rp' = [rp EXCEPT !.packet_length = number, !.number = 0, !.n_bytes = 0]
    ELSE LET data_length == rp.packet_length - Len(encode_varint(number))
         IN  /\ rpc' = IF 0 < data_length THEN "payload" ELSE "ret"
             /\ rp' = [rp EXCEPT !.packet_id = number, !.data_length = data_length,
                                 !.data = <<>>, !.number = 0, !.n_bytes = 0]

\* RecvVarIntByte as it would be with "break" in place of the raise of line 67:
\* the number read so far is returned
RecvVarIntByte_Break ==
    /\ rpc \in {"len", "id"}
    /\ Sock.inbuf # <<>>
    /\ conns' = Consume(1)
    /\ LET byte == Head(Sock.inbuf)
       IN  IF dv_overflow(rp.n_bytes)
           THEN RpVarIntDone(rp.number)
           ELSE IF dv_more(byte)
                THEN /\ rpc' = rpc
                     /\ rp' = [rp EXCEPT !.number = dv_accum(rp.number, byte, rp.n_bytes),
                                         !.n_bytes = @ + 1]
                ELSE RpVarIntDone(dv_accum(rp.number, byte, rp.n_bytes))
    /\ UNCHANGED <<objVars, pingVars, clock, calls, testVars>>

\* one pass of decode_varint's loop on a socket: byte = ord(sock.recv(1))
RecvVarIntByte ==
    /\ rpc \in {"len", "id"}
    /\ Sock.inbuf # <<>>
    /\ conns' = Consume(1)
    /\ LET byte == Head(Sock.inbuf)
       IN  IF dv_overflow(rp.n_bytes)
           THEN RpRaise(OverflowError_VarInt)
           ELSE IF dv_more(byte)
                THEN /\ rpc' = rpc
                     /\ rp' = [rp EXCEPT !.number = dv_accum(rp.number, byte, rp.n_bytes),
                                         !.n_bytes = @ + 1]
                ELSE RpVarIntDone(dv_accum(rp.number, byte, rp.n_bytes))
    /\ UNCHANGED <<objVars, pingVars, clock, calls, testVars>>

\* sock.recv(1) returns b'' at end of stream: ord(b'') raises TypeError
RecvVarIntEOF ==
    /\ rpc \in {"len", "id"}
    /\ Sock.inbuf = <<>> /\ Sock.eof
    /\ RpRaise(TypeError_Ord)
    /\ UNCHANGED <<objVars, pingVars, netVars, testVars>>

\* sock.recv(1) gets nothing within the socket's timeout
RecvVarIntTimeout ==
    /\ rpc \in {"len", "id"}
    /\ Sock.inbuf = <<>> /\ ~Sock.eof
    /\ RpRaise(SocketTimeout)
    /\ UNCHANGED <<objVars, pingVars, netVars, testVars>>

\* RecvCounts as it would be if recv took no notice of bufsize
RecvCounts_Unbounded(bufsize, avail) ==
    { k \in 1..avail : k <= MaxChunk \/ k = avail }

\* the byte counts recv(bufsize) may return when avail bytes have arrived: from
\* one byte up to the requested count; of these the model follows the counts
\* up to MaxChunk and the largest one
RecvCounts(bufsize, avail) ==
    { k \in 1..Min(bufsize, avail) : k <= MaxChunk \/ k = Min(bufsize, avail) }

\* RecvPayload as it would be with "data = sock.recv(...)" on line 124: each
\* fragment replaces the ones before it
RecvPayload_Overwrite ==
    /\ rpc = "payload"
    /\ Sock.inbuf # <<>>
    /\ \E k \in RecvCounts(rp.data_length - Len(rp.data), Len(Sock.inbuf)) :
          /\ conns' = Consume(k)
          /\ rp' = [rp EXCEPT !.data = SubSeq(Sock.inbuf, 1, k),
                              !.short = @ \/ k < rp.data_length - Len(rp.data)]
          /\ rpc' = IF k < rp.data_length THEN "payload" ELSE "ret"
    /\ UNCHANGED <<objVars, pingVars, clock, calls, testVars>>

\* data += sock.recv(data_length - len(data))
RecvPayload ==
    /\ rpc = "payload"
    /\ Sock.inbuf # <<>>
    /\ \E k \in RecvCounts(rp.data_length - Len(rp.data), Len(Sock.inbuf)) :
          /\ conns' = Consume(k)
          /\ rp' = [rp EXCEPT !.data = @ \o SubSeq(Sock.inbuf, 1, k),
                              !.short = @ \/ k < rp.data_length - Len(rp.data)]
          /\ rpc' = IF Len(rp.data) + k < rp.data_length THEN "payload" ELSE "ret"
    /\ UNCHANGED <<objVars, pingVars, clock, calls, testVars>>

\* recv returns b'' at end of stream: data is unchanged and the loop goes round
\* again (spins counts these passes, followed up to MaxSpin)
RecvPayloadEOF ==
    /\ rpc = "payload"
    /\ Sock.inbuf = <<>> /\ Sock.eof
    /\ rp.spins < MaxSpin
    /\ rp' = [rp EXCEPT !.spins = @ + 1]
    /\ rpc' = IF Len(rp.data) < rp.data_length THEN "payload" ELSE "ret"
    /\ UNCHANGED <<objVars, pingVars, netVars, testVars>>

RecvPayloadTimeout ==
    /\ rpc = "payload"
    /\ Sock.inbuf = <<>> /\ ~Sock.eof
    /\ RpRaise(SocketTimeout)
    /\ UNCHANGED <<objVars, pingVars, netVars, testVars>>

ReadPacketStep ==
    \/ RecvVarIntByte
    \/ RecvVarIntEOF
    \/ RecvVarIntTimeout
    \/ RecvPayload
    \/ RecvPayloadEOF
    \/ RecvPayloadTimeout

---------------------------------------------------------------------------
(* The servers.  A server is the byte stream it sends on a connection and what *)
(* it does after it: close (eof) or stay silent.  It frames as the client does. *)

\* the payload of a Status Response: VarInt(len) | JSON
StatusPayload(doc) == encode_varint(Len(doc)) \o doc
StatusPacket(doc) == write_packet(StatusPayload(doc), 0)
\* the server's echo of a Ping packet
PongPacket == write_packet(PackI64(0), 1)
\* length 0 and packet id 1: the length is smaller than the encoded id
ShortLengthPacket == <<0, 1>>
\* a five-byte VarInt as the packet length
LongVarInt == <<255, 255, 255, 255, 15>>

Conn1Streams ==
    { StatusPacket(DocIdle) \o PongPacket,
      StatusPacket(DocBusy) \o PongPacket,
      PongPacket \o StatusPacket(DocIdle),
      PongPacket \o PongPacket,
      StatusPacket(DocBusy) \o StatusPacket(DocIdle),
      StatusPacket(DocNoSample) \o PongPacket,
      StatusPacket(DocEmpty) \o PongPacket,
      StatusPacket(DocGarbage) \o PongPacket,
      write_packet(<<3>> \o DocEmpty, 0) \o PongPacket,
      write_packet(<<7>> \o DocNoSample, 0) \o PongPacket,
      write_packet(<<128, 128, 128, 128, 1>> \o DocEmpty, 0) \o PongPacket,
      write_packet(<<>>, 0) \o PongPacket,
      SubSeq(StatusPacket(DocNoSample), 1, 40),
      ShortLengthPacket \o PongPacket,
      LongVarInt,
      <<>> }

Conn2Streams ==
    { PongPacket,
      SubSeq(PongPacket, 1, 5),
      ShortLengthPacket,
      LongVarInt,
      <<>> }

ConnectErrors ==
    { Exc("ConnectionRefusedError", "[Errno 111] Connection refused"),
      Exc("gaierror", "[Errno -2] Name or service not known"),
      SocketTimeout }

---------------------------------------------------------------------------
(* MinecraftPing.ping.  pc is the position in ping; "idle" before the first    *)
(* call and "done" once a call has returned or raised, with the outcome in     *)
(* result.                                                                     *)

\* len(self.host) > 32767
HostLimit == 32767

NoResult == [kind |-> "none", ok |-> FALSE, reason |-> None, exc |-> NoExc]
\* return ok, reason
Returned(ok, reason) == [kind |-> "return", ok |-> ok, reason |-> reason, exc |-> NoExc]
\* an exception leaves ping
Raised(e) == [kind |-> "raise", ok |-> FALSE, reason |-> None, exc |-> e]

\* f"{e.__class__.__name__}: {e}"
FormatExc(e) == e.cls \o ": " \o e.msg

Log(op, e) == Append(raised, [op |-> op, exc |-> e])

\* an exception e raised by op leaves ping
PingRaises(op, e) ==
    /\ pc' = "done"
    /\ result' = Raised(e)
    /\ raised' = Log(op, e)

\* a caller calls server.ping()
Call ==
    /\ tpc = "off"
    /\ pc \in {"idle", "done"}
    /\ calls > 0
    /\ calls' = calls - 1
    /\ pc' = "connect1"
    /\ result' = NoResult
    /\ s' = 0 /\ start' = None /\ end' = None /\ nread' = 0 /\ raised' = <<>>
    /\ conns' = <<>> /\ clock' = 0
    /\ rpc' = "idle" /\ rp' = RpInit
    /\ UNCHANGED <<objVars, testVars>>

\* line 151: the connection is made
Connect1Ok ==
    /\ pc = "connect1"
    /\ \E inbuf \in Conn1Streams, eof \in BOOLEAN :
          conns' = Append(conns, Socket(inbuf, eof))
    /\ s' = Len(conns) + 1
    /\ clock' = clock + 1
    /\ pc' = "proto"
    /\ UNCHANGED <<objVars, result, start, end, nread, raised, calls, rdVars, testVars>>

\* Connect1Fail as it would be with "return False, str(e)": the reason without
\* the class name
Connect1Fail_NoClass ==
    /\ pc = "connect1"
    /\ \E e \in ConnectErrors :
          /\ result' = Returned(FALSE, Some(e.msg))
          /\ raised' = Log("connect1", e)
    /\ clock' = clock + 1
    /\ pc' = "done"
    /\ UNCHANGED <<objVars, s, start, end, nread, conns, calls, rdVars, testVars>>

\* lines 152-153: create_connection raises e
Connect1Fail ==
    /\ pc = "connect1"
    /\ \E e \in ConnectErrors :
          /\ result' = Returned(FALSE, Some(FormatExc(e)))
          /\ raised' = Log("connect1", e)
    /\ clock' = clock + 1
    /\ pc' = "done"
    /\ UNCHANGED <<objVars, s, start, end, nread, conns, calls, rdVars, testVars>>

\* lines 155-157
CheckHost ==
    /\ pc = "proto"
    /\ IF Len(host) > HostLimit
       THEN PingRaises("hostname", OverflowError_Host)
       ELSE pc' = "handshake" /\ UNCHANGED <<result, raised>>
    /\ UNCHANGED <<objVars, s, start, end, nread, netVars, rdVars, testVars>>

\* the payload of the handshake packet, lines 155-161
HandshakeData ==
    LET proto == encode_varint(-1)
        hostb == encode_varint(Len(host)) \o Utf8Encode(host)
        portb == PackU16(port)
        state == encode_varint(1)
    IN  proto \o hostb \o portb \o state

\* lines 158-161
SendHandshake ==
    /\ pc = "handshake"
    /\ conns' = Sent(write_packet(HandshakeData, 0))
    /\ pc' = "request"
    /\ UNCHANGED <<objVars, result, s, start, end, nread, raised, clock, calls, rdVars, testVars>>

\* SendRequest as it would be without line 162: no status request is sent
SendRequest_Skip ==
    /\ pc = "request"
    /\ pc' = "ping1"
    /\ UNCHANGED <<objVars, result, s, start, end, nread, raised, netVars, rdVars, testVars>>

\* line 162
SendRequest ==
    /\ pc = "request"
    /\ conns' = Sent(write_packet(<<>>, 0))
    /\ pc' = "ping1"
    /\ UNCHANGED <<objVars, result, s, start, end, nread, raised, clock, calls, rdVars, testVars>>

\* lines 165-167
SendPing1 ==
    /\ pc = "ping1"
    /\ conns' = Sent(write_packet(PackI64(clock), 1))
    /\ start' = Some(clock)
    /\ end' = None
    /\ nread' = 0
    /\ pc' = "read1"
    /\ UNCHANGED <<objVars, result, s, raised, clock, calls, rdVars, testVars>>

\* sock.send raises: the peer has reset the connection
SendFails ==
    /\ pc \in {"handshake", "request", "ping1", "ping2"}
    /\ PingRaises("send", BrokenPipe)
    /\ UNCHANGED <<objVars, s, start, end, nread, netVars, rdVars, testVars>>

\* line 171: read_packet(s) is entered; the wait for the reply takes time
Read1Call ==
    /\ pc = "read1"
    /\ CallReadPacket
    /\ clock' = clock + 1
    /\ pc' = "read1wait"
    /\ UNCHANGED <<objVars, result, s, start, end, nread, raised, conns, calls, testVars>>

\* the for-loop goes on after one packet: range(2)
Read1Next ==
    /\ nread' = nread + 1
    /\ pc' = IF nread + 1 < 2 THEN "read1" ELSE "close1"
    /\ UNCHANGED <<result, raised>>

\* lines 171-173: read_packet has returned or raised
Read1Return ==
    /\ pc = "read1wait"
    /\ rpc \in {"ret", "raised"}
    /\ rpc' = "idle"
    /\ IF rpc = "raised"
       THEN PingRaises("read_packet", rp.exc) /\ UNCHANGED <<status, nread>>
       ELSE IF rp.packet_id = 0
            THEN LET hr == handle_response(status, rp.data)
                 IN  /\ status' = hr.status
                     /\ IF hr.exc # NoExc
                        THEN PingRaises("_handle_response", hr.exc) /\ UNCHANGED nread
                        ELSE Read1Next
            ELSE Read1Next /\ UNCHANGED status
    /\ UNCHANGED <<host, port, latency, s, start, end, netVars, rp, testVars>>

\* Close1 as it would be without line 174: the first socket is left open
Close1_Skip ==
    /\ pc = "close1"
    /\ pc' = "connect2"
    /\ UNCHANGED <<objVars, result, s, start, end, nread, raised, netVars, rdVars, testVars>>

\* line 174
Close1 ==
    /\ pc = "close1"
    /\ conns' = Closed
    /\ pc' = "connect2"
    /\ UNCHANGED <<objVars, result, s, start, end, nread, raised, clock, calls, rdVars, testVars>>

\* line 177 succeeds: the else-block is entered
Connect2Ok ==
    /\ pc = "connect2"
    /\ \E inbuf \in Conn2Streams, eof \in BOOLEAN :
          conns' = Append(conns, Socket(inbuf, eof))
    /\ s' = Len(conns) + 1
    /\ clock' = clock + 1
    /\ pc' = "ping2"
    /\ UNCHANGED <<objVars, result, start, end, nread, raised, calls, rdVars, testVars>>

\* lines 178-179: create_connection raises e, except: pass
Connect2Fail ==
    /\ pc = "connect2"
    /\ \E e \in ConnectErrors : raised' = Log("connect2", e)
    /\ clock' = clock + 1
    /\ pc' = "return"
    /\ UNCHANGED <<objVars, result, s, start, end, nread, conns, calls, rdVars, testVars>>

\* SendPing2 as it would be without line 183: the timer of line 166 runs on
SendPing2_NoRestart ==
    /\ pc = "ping2"
    /\ conns' = Sent(write_packet(PackI64(clock), 1))
    /\ pc' = "read2"
    /\ UNCHANGED <<objVars, result, s, start, end, nread, raised, clock, calls, rdVars, testVars>>

\* lines 182-183
SendPing2 ==
    /\ pc = "ping2"
    /\ conns' = Sent(write_packet(PackI64(clock), 1))
    /\ start' = Some(clock)
    /\ pc' = "read2"
    /\ UNCHANGED <<objVars, result, s, end, nread, raised, clock, calls, rdVars, testVars>>

\* line 184: read_packet(s) is entered
Read2Call ==
    /\ pc = "read2"
    /\ CallReadPacket
    /\ clock' = clock + 1
    /\ pc' = "read2wait"
    /\ UNCHANGED <<objVars, result, s, start, end, nread, raised, conns, calls, testVars>>

\* Read2Return as it would be with lines 181-187 inside the try-block of line
\* 176: the blanket except takes the exception of read_packet too
Read2Return_Swallow ==
    /\ pc = "read2wait"
    /\ rpc \in {"ret", "raised"}
    /\ rpc' = "idle"
    /\ IF rpc = "raised"
       THEN /\ raised' = Log("read_packet", rp.exc)
            /\ pc' = "return"
            /\ UNCHANGED <<result, end, latency>>
       ELSE /\ end' = Some(clock)
            /\ latency' = Some(clock - start[1])
            /\ pc' = "close2"
            /\ UNCHANGED <<result, raised>>
    /\ UNCHANGED <<host, port, status, s, start, nread, netVars, rp, testVars>>

\* lines 184-186: read_packet has returned or raised
Read2Return ==
    /\ pc = "read2wait"
    /\ rpc \in {"ret", "raised"}
    /\ rpc' = "idle"
    /\ IF rpc = "raised"
       THEN PingRaises("read_packet", rp.exc) /\ UNCHANGED <<end, latency>>
       ELSE /\ end' = Some(clock)
            /\ latency' = Some(clock - start[1])
            /\ pc' = "close2"
            /\ UNCHANGED <<result, raised>>
    /\ UNCHANGED <<host, port, status, s, start, nread, netVars, rp, testVars>>

\* line 187
Close2 ==
    /\ pc = "close2"
    /\ conns' = Closed
    /\ pc' = "return"
    /\ UNCHANGED <<objVars, result, s, start, end, nread, raised, clock, calls, rdVars, testVars>>

\* line 189
Return ==
    /\ pc = "return"
    /\ result' = Returned(TRUE, None)
    /\ pc' = "done"
    /\ UNCHANGED <<objVars, s, start, end, nread, raised, netVars, rdVars, testVars>>

Ping ==
    \/ Call
    \/ Connect1Ok
    \/ Connect1Fail
    \/ CheckHost
    \/ SendHandshake
    \/ SendRequest
    \/ SendPing1
    \/ SendFails
    \/ Read1Call
    \/ Read1Return
    \/ Close1
    \/ Connect2Ok
    \/ Connect2Fail
    \/ SendPing2
    \/ Read2Call
    \/ Read2Return
    \/ Close2
    \/ Return

---------------------------------------------------------------------------
(* The codec on its own: encode_varint and decode_varint applied to a value,   *)
(* and read_packet applied to a stream that holds what write_packet sent, or   *)
(* given bytes.                                                                *)

MinInt32 == -2147483647 - 1
MaxInt32 == 2147483647

VarIntSamples ==
    { 0, 1, 2, 127, 128, 255, 300, 578, 16383, 16384, 25565, 2097151, 2097152,
      268435455, 268435456, 1000000000, MaxInt32, -1, -2, -128, -129, -25565,
      -268435456, -268435457, MinInt32 + 1, MinInt32 }

TestIds == { 0, 1, 127, 128, 16384, 268435455, 268435456, MaxInt32, -1, MinInt32 }

TestBytes == { 0, 128, 255 }

TestPayloads ==
    UNION { [1..n -> TestBytes] : n \in 0..MaxPayload } \cup { StatusPayload(DocBusy) }

RawStreams ==
    { <<>>, <<0>>, <<0, 0>>, ShortLengthPacket, <<1, 129, 0>>, <<1, 128, 1>>,
      <<5, 0, 1, 2>>, <<2, 0>>, <<3, 1, 7, 8, 9>>, LongVarInt, <<1, 255, 255, 255, 255, 15>>,
      <<255, 255, 255, 255, 255, 1>>, <<128>>, <<2, 128>>,
      <<255, 255, 255, 255, 255>>, <<128, 128, 128, 128, 128, 0>>,
      <<129, 128, 128, 128, 128, 128, 1>> }

TCase(kind, v, payload, bytes, eof) ==
    [kind |-> kind, v |-> v, payload |-> payload, bytes |-> bytes, eof |-> eof,
     v2 |-> 0, payload2 |-> <<>>]

\* two packets, (v, payload) then (v2, payload2), written back-to-back
PairIds == { 0, 1, 300 }
PairPayloads == { <<>>, <<0>>, <<128, 255>>, <<1, 0, 128>> }
TPair(v, payload, v2, payload2, eof) ==
    [TCase("pair", v, payload, <<>>, eof) EXCEPT !.v2 = v2, !.payload2 = payload2]

TestCases ==
    { TCase("varint", v, <<>>, <<>>, TRUE) : v \in VarIntSamples }
    \cup { TCase("packet", c[1], c[2], <<>>, c[3]) : c \in TestIds \X TestPayloads \X BOOLEAN }
    \cup { TCase("raw", 0, <<>>, c[1], c[2]) : c \in RawStreams \X BOOLEAN }
    \cup { TPair(c[1], c[2], c[3], c[4], c[5]) :
               c \in PairIds \X PairPayloads \X PairIds \X PairPayloads \X BOOLEAN }

NoOut ==
    [enc |-> <<>>, dec |-> DvErr(NoExc), exc |-> NoExc, packet_id |-> 0, data |-> <<>>,
     first |-> [exc |-> NoExc, packet_id |-> 0, data |-> <<>>]]

\* encode_varint(v)
TEncode ==
    /\ tpc = "start" /\ tcase.kind = "varint"
    /\ tout' = [tout EXCEPT !.enc = encode_varint(tcase.v)]
    /\ tpc' = "encoded"
    /\ UNCHANGED <<objVars, pingVars, netVars, rdVars, tcase>>

\* decode_varint(encode_varint(v)), on the bytes
TDecode ==
    /\ tpc = "encoded"
    /\ tout' = [tout EXCEPT !.dec = decode_varint(tout.enc)]
    /\ tpc' = "done"
    /\ UNCHANGED <<objVars, pingVars, netVars, rdVars, tcase>>

\* write_packet(sock, payload, id) on a stream whose other end is read below
TWrite ==
    /\ tpc = "start" /\ tcase.kind = "packet"
    /\ LET bytes == write_packet(tcase.payload, tcase.v)
       IN  conns' = <<[Socket(bytes, tcase.eof) EXCEPT !.sent = <<bytes>>]>>
    /\ s' = 1
    /\ tpc' = "written"
    /\ UNCHANGED <<objVars, pc, result, start, end, nread, raised, clock, calls, rdVars,
                   tcase, tout>>

\* a stream that holds the given bytes
TFeed ==
    /\ tpc = "start" /\ tcase.kind = "raw"
    /\ conns' = <<Socket(tcase.bytes, tcase.eof)>>
    /\ s' = 1
    /\ tpc' = "written"
    /\ UNCHANGED <<objVars, pc, result, start, end, nread, raised, clock, calls, rdVars,
                   tcase, tout>>

\* decode_varint(bytes) on the given bytes
TDecodeRaw ==
    /\ tpc = "start" /\ tcase.kind = "raw"
    /\ tout' = [tout EXCEPT !.dec = decode_varint(tcase.bytes)]
    /\ tpc' = "decoded"
    /\ UNCHANGED <<objVars, pingVars, netVars, rdVars, tcase>>

\* write_packet(sock, payload, v) and then write_packet(sock, payload2, v2) on
\* one stream
TWritePair ==
    /\ tpc = "start" /\ tcase.kind = "pair"
    /\ LET one == write_packet(tcase.payload, tcase.v)
           two == write_packet(tcase.payload2, tcase.v2)
       IN  conns' = <<[Socket(one \o two, tcase.eof) EXCEPT !.sent = <<one, two>>]>>
    /\ s' = 1
    /\ tpc' = "written2"
    /\ UNCHANGED <<objVars, pc, result, start, end, nread, raised, clock, calls, rdVars,
                   tcase, tout>>

\* the first of two read_packet(sock) calls is entered
TReadFirst ==
    /\ tpc = "written2"
    /\ CallReadPacket
    /\ tpc' = "reading1"
    /\ UNCHANGED <<objVars, pingVars, netVars, tcase, tout>>

\* the first read_packet has returned (packet_id, data) or raised; the second
\* call is TRead
TReturnFirst ==
    /\ tpc = "reading1"
    /\ rpc \in {"ret", "raised"}
    /\ rpc' = "idle"
    /\ tout' = [tout EXCEPT !.first = [exc |-> rp.exc, packet_id |-> rp.packet_id,
                                       data |-> rp.data]]
    /\ tpc' = "written"
    /\ UNCHANGED <<objVars, pingVars, netVars, rp, tcase>>

\* read_packet(sock) is entered
TRead ==
    /\ tpc = "written"
    /\ CallReadPacket
    /\ tpc' = "reading"
    /\ UNCHANGED <<objVars, pingVars, netVars, tcase, tout>>

\* read_packet has returned (packet_id, data) or raised
TReturn ==
    /\ tpc = "reading"
    /\ rpc \in {"ret", "raised"}
    /\ rpc' = "idle"
    /\ tout' = [tout EXCEPT !.exc = rp.exc, !.packet_id = rp.packet_id, !.data = rp.data]
    /\ tpc' = "done"
    /\ UNCHANGED <<objVars, pingVars, netVars, rp, tcase>>

Codec ==
    \/ TEncode
    \/ TDecode
    \/ TWrite
    \/ TFeed
    \/ TDecodeRaw
    \/ TWritePair
    \/ TReadFirst
    \/ TReturnFirst
    \/ TRead
    \/ TReturn

---------------------------------------------------------------------------
(* Specifications *)

\* "mc", and a host with characters of two and three UTF-8 bytes
Hosts == { <<109, 99>>, <<233, 8364>> }

Rep(cp, n) == [i \in 1..n |-> cp]

\* hosts at the hostname limit: 32767 and 32768 ASCII characters, and 16384
\* characters of two UTF-8 bytes each (32768 bytes)
BigHosts == { Rep(97, HostLimit), Rep(97, HostLimit + 1), Rep(233, (HostLimit + 1) \div 2) }

\* the port the program pings by default
DefaultPort == 25565

InitObject(hosts, ncalls) ==
    /\ host \in hosts
    /\ port = DefaultPort
    /\ latency = None
    /\ status = NoStatus
    /\ pc = "idle" /\ result = NoResult
    /\ s = 0 /\ start = None /\ end = None /\ nread = 0 /\ raised = <<>>
    /\ conns = <<>> /\ clock = 0 /\ calls = ncalls
    /\ rpc = "idle" /\ rp = RpInit
    /\ tpc = "off" /\ tcase = TCase("none", 0, <<>>, <<>>, TRUE) /\ tout = NoOut

\* a MinecraftPing object after __init__, pinged up to MaxPings times
Init == InitObject(Hosts, MaxPings)

Next == Ping \/ ReadPacketStep

Spec == Init /\ [][Next]_vars

\* a MinecraftPing object whose host is at the hostname limit, pinged once
InitBig == InitObject(BigHosts, 1)

SpecBig == InitBig /\ [][Next]_vars

\* the codec applied to one input
InitCodec ==
    /\ host = <<>> /\ port = DefaultPort /\ latency = None /\ status = NoStatus
    /\ pc = "off" /\ result = NoResult
    /\ s = 0 /\ start = None /\ end = None /\ nread = 0 /\ raised = <<>>
    /\ conns = <<>> /\ clock = 0 /\ calls = 0
    /\ rpc = "idle" /\ rp = RpInit
    /\ tpc = "start" /\ tcase \in TestCases /\ tout = NoOut

NextCodec == Codec \/ ReadPacketStep

SpecCodec == InitCodec /\ [][NextCodec]_vars

---------------------------------------------------------------------------
(* Properties *)

\* C1 (as claimed): VarInt round-trip.  For every signed 32-bit v, decode_varint
\* applied to encode_varint(v) returns v and leaves no byte over.
C1_VarIntRoundTrip ==
    (tpc = "done" /\ tcase.kind = "varint")
        => /\ tout.dec.exc = NoExc
           /\ tout.dec.number = tcase.v
           /\ tout.dec.rest = <<>>

\* C2 (as claimed): framing round-trip.  read_packet on a stream that holds
\* exactly what write_packet(id, payload) sent returns (id, payload), for every
\* id of the int32 range.
C2_FramingRoundTrip ==
    (tpc = "done" /\ tcase.kind = "packet")
        => /\ tout.exc = NoExc
           /\ tout.packet_id = tcase.v
           /\ tout.data = tcase.payload

\* C3 (as claimed): when ping has returned or raised, every connection it
\* opened is closed.
C3_AllClosedOnExit ==
    pc = "done" => \A i \in DOMAIN conns : ~conns[i].open

\* the number of UTF-8 bytes of the host
HostBytes == Len(Utf8Encode(host))

\* C4 (as claimed): hostname limit.  With a host of more than 32767 UTF-8 bytes,
\* ping makes no connection attempt and sends nothing: its only step is the
\* rejection.
C4_HostRejectedBeforeIO ==
    HostBytes > HostLimit
        => /\ conns = <<>>
           /\ raised = <<>> \/ (raised = <<[op |-> "hostname", exc |-> OverflowError_Host]>>
                                /\ pc = "done")

\* C5 (as claimed): once recv has returned no bytes in the payload loop, with
\* fewer than data_length bytes read, read_packet has raised: it is not still
\* in the loop.
C5_EofRaises ==
    rp.spins > 0 => rpc = "raised"

\* C6 (as claimed): read_packet returns a packet only if the decoded length is
\* at least the encoded size of the decoded id (data_length >= 0).
C6_ShortLengthRaises ==
    rpc = "ret" => rp.data_length >= 0

\* every status attribute has been assigned
Populated(st) == \A k \in DOMAIN st : st[k] # None

\* ping has returned (True, None)
Success == pc = "done" /\ result = Returned(TRUE, None)

\* C7 (as claimed): whenever ping returns success, a Status Response has been
\* parsed and the object holds a populated status.
C7_SuccessHasStatus ==
    Success => Populated(status)

\* C8: if the first connection cannot be opened, ping returns (False, reason)
\* in that step, reason being the error's class name, ": " and its message; no
\* socket exists (nothing was sent, no second connection was tried), that
\* failure is the only exception of the call, and the status attributes and
\* the latency are as they were.
C8_ConnectFailure ==
    [][(pc = "connect1" /\ conns' = <<>>)
          => /\ pc' = "done"
             /\ \E e \in ConnectErrors :
                   /\ result' = [kind |-> "return", ok |-> FALSE,
                                 reason |-> <<e.cls \o ": " \o e.msg>>, exc |-> NoExc]
                   /\ raised' = <<[op |-> "connect1", exc |-> e]>>
             /\ status' = status
             /\ latency' = latency]_vars

\* C8, reached: a second call of ping on an object that holds a status and a
\* latency fails to connect and returns the refusal as its reason.
C8_Witness ==
    /\ pc = "done"
    /\ result = Returned(FALSE, Some("ConnectionRefusedError: [Errno 111] Connection refused"))
    /\ conns = <<>>
    /\ Populated(status)
    /\ latency # None

\* the second connection of this call could not be opened
Connect2Failed == \E i \in DOMAIN raised : raised[i].op = "connect2"

\* C9 (as claimed): for every call in which the first connection completes the
\* status exchange and the second cannot be opened, so that ping returns with
\* the parsed status held by the object, ping returns success and the latency
\* after the call is None.
C9_NoLatencyRetained ==
    (pc = "done" /\ Connect2Failed /\ Populated(status)) => (Success /\ latency = None)

\* C10: an exception that read_packet (framing, VarInt decoding) or
\* _handle_response (status parsing) raises on an established connection
\* leaves ping as that exception, so the call does not return success; an
\* exception after which the call goes on, or returns success, is a failure to
\* open the second connection.
C10_ErrorsPropagate ==
    /\ \A i \in DOMAIN raised :
          raised[i].op \in {"read_packet", "_handle_response"}
              => (pc = "done" /\ result = Raised(raised[i].exc))
    /\ (pc \notin {"idle", "done", "off"} \/ Success)
          => \A i \in DOMAIN raised : raised[i].op = "connect2"

\* C10, reached: read_packet raised on the second connection, after a status
\* was parsed on the first, and ping ended with that exception.
C10_Witness ==
    /\ pc = "done"
    /\ Len(conns) = 2
    /\ Populated(status)
    /\ raised # <<>>
    /\ raised[Len(raised)].op = "read_packet"
    /\ result.kind = "raise"


\* C11: in a call of ping at most one connection is open at any point, the
\* second connection exists only once the first has been closed, and the call
\* opens at most two connections.
C11_SequentialConnections ==
    /\ Len(conns) <= 2
    /\ Cardinality({i \in DOMAIN conns : conns[i].open}) <= 1
    /\ Len(conns) = 2 => ~conns[1].open

\* C11, reached: the second connection is open and the first is closed.
C11_Witness ==
    /\ pc \in {"ping2", "read2", "read2wait", "close2"}
    /\ Len(conns) = 2
    /\ conns[2].open
    /\ ~conns[1].open


\* the first five bytes all have the continuation bit set
FiveContinued(bytes) == Len(bytes) >= 5 /\ \A i \in 1..5 : bytes[i] >= 128

\* C12: on an input whose first five bytes all have the continuation bit set,
\* decode_varint raises OverflowError("VarInt too large"), from a bytes source
\* and from a socket, and it takes no more than five bytes from the socket: no
\* number is ever decoded from such an input.
C12_OverflowAfterFive ==
    (tcase.kind = "raw" /\ FiveContinued(tcase.bytes))
        => /\ tpc = "decoded" => tout.dec.exc = [cls |-> "OverflowError", msg |-> "VarInt too large"]
           /\ tpc \in {"written", "reading", "done"}
                 => Len(tcase.bytes) - Len(conns[1].inbuf) <= 5
           /\ rpc \notin {"id", "payload", "ret"}
           /\ rpc = "raised" => rp.exc = [cls |-> "OverflowError", msg |-> "VarInt too large"]
           /\ tpc = "done" => tout.exc = [cls |-> "OverflowError", msg |-> "VarInt too large"]

\* C12, reached: read_packet raised the overflow on a stream of more than five
\* bytes, five of which were taken.
C12_Witness ==
    /\ tpc = "done"
    /\ tcase.kind = "raw"
    /\ FiveContinued(tcase.bytes)
    /\ Len(tcase.bytes) > 5
    /\ Len(conns[1].inbuf) = Len(tcase.bytes) - 5
    /\ tout.exc = OverflowError_VarInt


\* a packet whose id decode_varint can read back (see C1)
ReadableId(v) == 0 <= v /\ v < Pow2(28)

\* C13: whatever the sizes of the fragments recv returns, read_packet puts the
\* payload of a well-formed packet together in order: while the payload is read
\* the bytes taken so far followed by the bytes still on the stream are the
\* payload, and the call returns the (id, payload) that was written, just as it
\* does when every recv returns all the bytes it asked for.
C13_PartialReads ==
    (tcase.kind = "packet" /\ ReadableId(tcase.v))
        => /\ (tpc = "reading" /\ rpc \in {"payload", "ret"})
                 => /\ rp.packet_id = tcase.v
                    /\ rp.data \o conns[1].inbuf = tcase.payload
           /\ tpc = "reading" => rpc # "raised"
           /\ tpc = "done"
                 => /\ tout.exc = NoExc
                    /\ tout.packet_id = tcase.v
                    /\ tout.data = tcase.payload

\* C13, reached: a status payload came in fragments shorter than asked for and
\* read_packet returned it whole.
C13_Witness ==
    /\ tpc = "done"
    /\ tcase.kind = "packet"
    /\ ReadableId(tcase.v)
    /\ Len(tcase.payload) > MaxChunk
    /\ rp.short
    /\ tout.exc = NoExc
    /\ tout.data = tcase.payload


\* C14 as the specification words it: encode_varint(0) is the single byte 0x00,
\* and encode_varint(-1) is five bytes, the first four with the continuation
\* bit set, the last with it clear and with the value bits 0x7f.
C14_BoundaryAsWorded ==
    (tcase.kind = "varint" /\ tpc \in {"encoded", "done"})
        => /\ tcase.v = 0 => tout.enc = <<0>>
           /\ tcase.v = -1
                 => /\ Len(tout.enc) = 5
                    /\ \A i \in 1..4 : tout.enc[i] >= 128
                    /\ tout.enc[5] < 128
                    /\ tout.enc[5] % 128 = 127

\* C14: encode_varint(0) is the single byte 0x00, and encode_varint(-1) is the
\* five bytes ff ff ff ff 0f: the first four have the continuation bit set and
\* the value bits 0x7f, the last has the continuation bit clear and holds the
\* four bits that remain of the 32, 0x0f.
C14_Boundary ==
    (tcase.kind = "varint" /\ tpc \in {"encoded", "done"})
        => /\ tcase.v = 0 => tout.enc = <<0>>
           /\ tcase.v = -1 => tout.enc = <<255, 255, 255, 255, 15>>

\* C14, reached: -1 has been encoded.
C14_Witness ==
    /\ tpc = "encoded"
    /\ tcase.kind = "varint"
    /\ tcase.v = -1
    /\ Len(tout.enc) = 5


\* The leading VarInt of a byte string, as the protocol defines it: it ends at
\* the first byte without the continuation bit, which is one of the first five
\* (0: there is none).
VarIntEnd(data) ==
    LET ends == { i \in 1..Min(5, Len(data)) : data[i] < 128 }
    IN  IF ends = {} THEN 0 ELSE CHOOSE i \in ends : \A j \in ends : i <= j

\* the value bits of byte i of an n-byte VarInt, in place
Group(data, i, n) == IF i <= n THEN (data[i] % 128) * Pow2(7 * (i - 1)) ELSE 0

\* The leading VarInt differs from the number of bytes after it.  A fifth byte
\* with value bits makes the VarInt at least 2^28 or negative, which no byte
\* count here is.
DeclaredDiffers(data) ==
    LET n == VarIntEnd(data)
    IN  /\ n # 0
        /\ \/ n = 5 /\ data[5] # 0
           \/ Group(data, 1, n) + Group(data, 2, n) + Group(data, 3, n) + Group(data, 4, n)
                 # Len(data) - n

\* C15: when the leading VarInt of a status payload differs from the number of
\* bytes after it, ping ends with RuntimeError("Return data length mismatch")
\* and the status fields are as they were.
C15_LengthMismatch ==
    [][ (/\ pc = "read1wait"
         /\ rpc = "ret"
         /\ rp.packet_id = 0
         /\ DeclaredDiffers(rp.data)
         /\ pc' # pc)
            => /\ result' = Raised(RuntimeError_Length)
               /\ status' = status ]_vars


\* C16: the handshake, the first packet sent on the first connection, is packet
\* 0 with the payload VarInt(-1) | VarInt(n) | UTF8(host) | uint16_be(port) |
\* VarInt(1), where n is the number of UTF-8 bytes of the host.
C16_HandshakeHostLength ==
    (pc \notin {"idle", "off"} /\ conns # <<>> /\ conns[1].sent # <<>>)
        => conns[1].sent[1]
              = write_packet(encode_varint(-1) \o encode_varint(HostBytes) \o Utf8Encode(host)
                                \o PackU16(port) \o encode_varint(1), 0)


\* a byte string handed to send, read as one packet: length, id, payload
SentPacket(bytes) ==
    LET len == decode_varint(bytes)
        id  == decode_varint(len.rest)
    IN  [ok |-> len.exc = NoExc /\ id.exc = NoExc /\ len.number = Len(len.rest),
         packet_id |-> id.number, data |-> id.rest]

\* C17: on the first connection ping sends the handshake (packet 0, payload not
\* empty), the status request (packet 0, empty payload) and the ping (packet 1),
\* in this order and nothing else; no read is made before the three are sent;
\* at most two packets are read, and the connection is closed only after two
\* have been read.
C17_FirstConnectionOrder ==
    (pc \notin {"idle", "off"} /\ conns # <<>>)
        => LET sent == conns[1].sent
           IN  /\ Len(sent) <= 3
               /\ \A i \in DOMAIN sent : SentPacket(sent[i]).ok
               /\ Len(sent) >= 1
                     => SentPacket(sent[1]).packet_id = 0 /\ SentPacket(sent[1]).data # <<>>
               /\ Len(sent) >= 2
                     => SentPacket(sent[2]).packet_id = 0 /\ SentPacket(sent[2]).data = <<>>
               /\ Len(sent) >= 3 => SentPacket(sent[3]).packet_id = 1
               /\ Len(sent) < 3 => rpc = "idle" /\ pc \notin {"read1", "read1wait", "close1"}
               /\ pc \in {"read1", "read1wait", "close1"} => nread <= 2
               /\ pc = "read1wait" => nread < 2
               /\ pc = "close1" => nread = 2
               /\ ~conns[1].open => nread = 2 /\ Len(sent) = 3

\* C17, reached: the first connection has been closed after three packets were
\* sent and two were read.
C17_Witness ==
    /\ pc = "connect2"
    /\ ~conns[1].open
    /\ Len(conns[1].sent) = 3
    /\ SentPacket(conns[1].sent[3]).packet_id = 1
    /\ nread = 2


\* the time a Ping packet was sent at, from the timestamp it carries
SentAt(bytes) ==
    LET data == SentPacket(bytes).data
    IN  data[7] * 256 + data[8]

\* C18: latency is assigned only by the step at which read_packet returns the
\* reply on the second connection, on which one packet, the ping, was sent; the
\* value is the time from the sending of that ping to the return of
\* read_packet, and that ping was sent later than the ping of the first
\* connection, whose timer is not the one measured.
C18_LatencyFromSecondPing ==
    [][ latency' # latency
           => /\ pc = "read2wait" /\ pc' = "close2"
              /\ rpc = "ret"
              /\ s = 2 /\ Len(conns) = 2
              /\ ~conns[1].open
              /\ Len(conns[2].sent) = 1
              /\ SentPacket(conns[2].sent[1]).packet_id = 1
              /\ SentAt(conns[1].sent[3]) < SentAt(conns[2].sent[1])
              /\ latency' = Some(clock - SentAt(conns[2].sent[1])) ]_vars

\* C18, reached: the reply on the second connection has been read and latency
\* holds the time since the second ping.
C18_Witness ==
    /\ pc = "close2"
    /\ Len(conns) = 2
    /\ latency = Some(clock - SentAt(conns[2].sent[1]))
    /\ end = Some(clock)


\* C19: for a signed 32-bit v, encode_varint(v) returns between one and five
\* bytes, each a byte value, every one but the last with the continuation bit
\* set and the last with it clear; a negative v gives exactly five bytes.
C19_EncodedShape ==
    (tcase.kind = "varint" /\ tpc \in {"encoded", "done"})
        => LET enc == tout.enc
           IN  /\ MinInt32 <= tcase.v /\ tcase.v <= MaxInt32
               /\ 1 <= Len(enc) /\ Len(enc) <= 5
               /\ \A i \in 1..Len(enc) : 0 <= enc[i] /\ enc[i] <= 255
               /\ \A i \in 1..(Len(enc) - 1) : enc[i] >= 128
               /\ enc[Len(enc)] < 128
               /\ tcase.v < 0 => Len(enc) = 5

\* C19, reached: the least int32 has been encoded, to 80 80 80 80 08.
C19_Witness ==
    /\ tpc = "encoded"
    /\ tcase.kind = "varint"
    /\ tcase.v = MinInt32
    /\ tout.enc = <<128, 128, 128, 128, 8>>


\* the second packet of a pair, as written
SecondPacket == write_packet(tcase.payload2, tcase.v2)

\* C20: of two packets written back-to-back on one stream, the first
\* read_packet call leaves every byte of the second on the stream: when it
\* returns it has taken the length prefix and as many bytes as the prefix
\* says, and the second packet is what remains; the second call then returns
\* the second packet and the stream is empty.  This holds for every
\* fragmentation of the reads.
C20_NoOverRead ==
    tcase.kind = "pair"
        => /\ tpc = "reading1"
                 => /\ Len(conns[1].inbuf) >= Len(SecondPacket)
                    /\ rpc # "raised"
                    /\ rpc = "ret"
                          => /\ conns[1].inbuf = SecondPacket
                             /\ Len(conns[1].sent[1])
                                   = Len(encode_varint(rp.packet_length)) + rp.packet_length
           /\ tpc \in {"written", "reading", "done"}
                 => /\ tout.first = [exc |-> NoExc, packet_id |-> tcase.v, data |-> tcase.payload]
                    /\ tpc = "written" => conns[1].inbuf = SecondPacket
           /\ tpc = "reading" => rpc # "raised"
           /\ tpc = "done"
                 => /\ tout.exc = NoExc
                    /\ tout.packet_id = tcase.v2
                    /\ tout.data = tcase.payload2
                    /\ conns[1].inbuf = <<>>

\* C20, reached: both packets of a pair were returned in order, each payload
\* longer than a fragment and the second read in fragments.
C20_Witness ==
    /\ tpc = "done"
    /\ tcase.kind = "pair"
    /\ Len(tcase.payload) > MaxChunk
    /\ Len(tcase.payload2) > MaxChunk
    /\ rp.short
    /\ tout.first.data = tcase.payload
    /\ tout.data = tcase.payload2
    /\ conns[1].inbuf = <<>>

=============================================================================
